---- MODULE Spec2Model ----
(***************************************************************************)
(* The panel-flattening GUI of task2/flattening_module (ImageFlattener in  *)
(* imageflattener.py and in gui.py) as a state machine of Tk callbacks.    *)
(* One object, one thread: every action is one callback run to completion  *)
(* (or to the exception that aborts it).  The dimension pop-up is a second *)
(* Tk root running a nested mainloop, so the main window's callbacks stay  *)
(* enabled while pop-ups are open.                                         *)
(* Two smaller programs are specified beside it: the start of the script   *)
(* of imageflattener.py, which parses the input json before it constructs  *)
(* the session (MainSpec), and the file Viewer of task1/common/gui.py      *)
(* (ViewerSpec).                                                           *)
(***************************************************************************)
EXTENDS Integers, Sequences, FiniteSets, TLC

\* Python's None, for a field that otherwise holds a tuple
None == <<>>
\* no path, no warp call, no exception
NoPath == [stem |-> "", extra |-> <<>>]
NoWarp ==
  [rect |-> <<>>, short |-> 0, long |-> 0, src |-> 0, by |-> "", calls |-> 0]
NoExc == ""
\* result.json does not exist
NoResult == [writes |-> 0, content |-> <<>>]

(* ------------------------------ bounds -------------------------------- *)
\* at most this many dimension pop-ups are open at once
MaxPops == 2
\* at most this many output paths are written in one run
MaxSaved == 1
\* at most this many elements in one hint list of the input json
MaxHints == 3
\* at most this many files in the file list of the task-1 Viewer
MaxFiles == 3

(* ------------------------------ inputs -------------------------------- *)
\* the two ImageFlattener classes
Impls == {"imageflattener", "gui"}

\* the source images, in the order they are processed; two share a stem
Paths ==
  << [dir |-> "x", stem |-> "a"],
     [dir |-> "y", stem |-> "a"] >>

\* the corners of the panel on the canvas, in the order the user goes round
Corners == << <<0, 0>>, <<1, 0>>, <<1, 1>>, <<0, 1>> >>

\* where a click can land when n clicks are recorded: on the next corner,
\* or (a double click) on the point of the click before
ClickTargets(cs) ==
  { Corners[(Len(cs) % 4) + 1] } \cup
  (IF cs = <<>> THEN {} ELSE { cs[Len(cs)].pt })

\* texts the user can leave in the pop-up: << short entry, long entry >>
Entries ==
  { << <<"x">>, <<"2">> >>,
    << <<"2">>, <<"x">> >>,
    << <<"-", "1">>, <<"0">> >>,
    << <<"2">>, <<"2">> >> }

(* ------------------ the input json of imageflattener.py --------------- *)
\* a json value as json.load returns it: an int, a str, a list of values,
\* or a dict, whose items are its (key, value) entries in file order
JInt(n) == [t |-> "int", n |-> n, s |-> "", items |-> <<>>]
JStr(s) == [t |-> "str", n |-> 0, s |-> s, items |-> <<>>]
JList(items) == [t |-> "list", n |-> 0, s |-> "", items |-> items]
JEntry(key, value) == [t |-> "entry", n |-> 0, s |-> key, items |-> <<value>>]
JDict(entries) == [t |-> "dict", n |-> 0, s |-> "", items |-> entries]

\* what a hint list can hold: two good points, a point of one and of three
\* ints, a point that starts with a string, and a bare int
JPoints ==
  { JList(<<JInt(1), JInt(2)>>),
    JList(<<JInt(2), JInt(1)>>),
    JList(<<JInt(1)>>),
    JList(<<JInt(1), JInt(2), JInt(0)>>),
    JList(<<JStr("a"), JInt(2)>>),
    JInt(1) }

\* sequences over S of length 0 .. n
SeqUpTo(S, n) == UNION { [1..k -> S] : k \in 0..n }

\* the values of a json object: hint lists, and values that are no list
JValues == { JList(h) : h \in SeqUpTo(JPoints, MaxHints) } \cup { JInt(1), JStr("a") }

\* the image paths named in the input
JKeys == << "a", "b" >>

\* the content of the --input file: an object with one entry or with two (the
\* second value a short hint list or an int), an array of paths, or something
\* else
ImagesInputs ==
  { JDict(<<JEntry(JKeys[1], v)>>) : v \in JValues } \cup
  { JDict(<<JEntry(JKeys[1], v), JEntry(JKeys[2], w)>>) :
      v \in JValues,
      w \in { JList(h) : h \in SeqUpTo(JPoints, 1) } \cup { JInt(1) } } \cup
  { JList([i \in 1..k |-> JStr(JKeys[i])]) : k \in 0..Len(JKeys) } \cup
  { JInt(1), JStr("a") }

\* the test of one point of the list value (lines 215-218), evaluated left
\* to right: the exception it ends in, or none
PointTest(value, point) ==
  IF point.t # "list" THEN "JsonFormatError"
  ELSE IF Len(value.items) # 2 THEN "JsonFormatError"
  ELSE IF Len(point.items) < 1 THEN "IndexError"
  ELSE IF point.items[1].t # "int" THEN "JsonFormatError"
  ELSE IF Len(point.items) < 2 THEN "IndexError"
  ELSE IF point.items[2].t # "int" THEN "JsonFormatError"
  ELSE NoExc

\* for point in images_input[key], from the i-th point on
RECURSIVE ParsePoints(_, _)
ParsePoints(value, i) ==
  IF i > Len(value.items) THEN NoExc
  ELSE IF PointTest(value, value.items[i]) # NoExc
    THEN PointTest(value, value.items[i])
  ELSE ParsePoints(value, i + 1)

\* for key in images_input, from the i-th entry on; acc is panels_in so far
RECURSIVE ParseKeys(_, _, _)
ParseKeys(entries, i, acc) ==
  IF i > Len(entries) THEN [exc |-> NoExc, panels_in |-> acc]
  ELSE
    LET key == entries[i].s
        value == entries[i].items[1]
    IN IF value.t # "list"
         THEN [exc |-> "JsonFormatError", panels_in |-> <<>>]
       ELSE IF ParsePoints(value, 1) # NoExc
         THEN [exc |-> ParsePoints(value, 1), panels_in |-> <<>>]
       ELSE ParseKeys(entries, i + 1,
                      Append(acc, [key |-> key, hints |-> value.items]))

\* _parse_input: panels_in as the (path, hints) entries in order, or the
\* exception that leaves it
parse_input(input) ==
  IF input.t = "dict" THEN ParseKeys(input.items, 1, <<>>)
  ELSE IF input.t = "list"
    THEN [exc |-> NoExc,
          panels_in |-> [i \in 1..Len(input.items) |->
                           [key |-> input.items[i].s, hints |-> <<>>]]]
  ELSE [exc |-> "JsonFormatError", panels_in |-> <<>>]

(* ------------------------- pure helper functions ---------------------- *)
Digit(c) ==
  CASE c = "0" -> 0
    [] c = "1" -> 1
    [] c = "2" -> 2
    [] OTHER -> -1

AllDigits(s) == Len(s) > 0 /\ \A i \in 1..Len(s) : Digit(s[i]) >= 0

RECURSIVE DigitsValue(_)
DigitsValue(s) ==
  IF s = <<>> THEN 0
  ELSE 10 * DigitsValue(SubSeq(s, 1, Len(s) - 1)) + Digit(s[Len(s)])

\* float(str): the parsed number, or ValueError (ok = FALSE)
float(s) ==
  IF AllDigits(s) THEN [ok |-> TRUE, val |-> DigitsValue(s)]
  ELSE IF Len(s) > 1 /\ s[1] = "-" /\ AllDigits(Tail(s))
    THEN [ok |-> TRUE, val |-> 0 - DigitsValue(Tail(s))]
  ELSE [ok |-> FALSE, val |-> 0]

Collinear(p, q, r) ==
  (q[1] - p[1]) * (r[2] - p[2]) = (q[2] - p[2]) * (r[1] - p[1])

Degenerate(rect) ==
  \E i, j, k \in 1..Len(rect) :
    i < j /\ j < k /\ Collinear(rect[i], rect[j], rect[k])

\* the image read from the current source file (which file: curr)
Original == [flat |-> FALSE, dims |-> None]

\* nPTransform.four_points_correct_aspect: the warped image, or an error
four_points_correct_aspect(img, rect, short, long) ==
  IF Degenerate(rect) \/ short <= 0 \/ long <= 0
    THEN [ok |-> FALSE, img |-> img]
    ELSE [ok |-> TRUE,
          img |-> [flat |-> TRUE, dims |-> <<short, long>>]]

(* ------------------------------- state -------------------------------- *)
VARIABLES
  impl,           \* which ImageFlattener class runs
  img_flattened,  \* self._img_flattened
  num_saved,      \* self.__num_saved
  dim,            \* self.__dim : None or <<short, long>>
  clicks,         \* self.__clicks, each with the image it was made on
  saved,          \* self.__saved : output path -> dim
  curr,           \* index in Paths of self.curr_path
  cv_img,         \* the working image
  disk,           \* the image files written : output path -> image
  pops,           \* open pop-ups, without and with a 'Use Last' button
  reload_timer,   \* the after(200, self.reload) call is still pending
  phase,          \* "none" (no session), "running", "ended" (mainloop
                  \* left), "written"
  result_json,    \* result.json: times written, and its content
  exc,            \* history: exception that ended the last callback
  warp,           \* history: arguments of the warp call of the last callback
  wrote,          \* history: path written by the last callback
  last_done,      \* history: the pair the last accepted Done submitted
  saves_in_row,   \* history: Save callbacks in a row, the first in Flattened
  images_input,   \* __main__: the loaded input json
  panels_in,      \* __main__: the result of _parse_input
  main_exc,       \* __main__: the exception that ended the script
  main_pc,        \* __main__: "parse", "construct", "mainloop", "exit"
  files,          \* Viewer.files
  index,          \* Viewer.index, counted from 0
  evar,           \* Viewer.evar: the text in the search bar
  tkimage,        \* Viewer.tkimage: the file whose image is shown
  nav             \* history: the last Viewer callback and the index before it

prog == << impl, img_flattened, num_saved, dim, clicks, saved, curr, cv_img,
           disk, pops, reload_timer, phase, result_json >>
vars == << impl, img_flattened, num_saved, dim, clicks, saved, curr, cv_img,
           disk, pops, reload_timer, phase, result_json,
           exc, warp, wrote, last_done, saves_in_row >>
\* the script around the session, up to master.mainloop()
main == << images_input, panels_in, main_exc, main_pc >>
\* the task-1 Viewer, a program of its own
viewer == << files, index, evar, tkimage, nav >>

\* the object a callback starts from
Obj ==
  [ impl |-> impl, img_flattened |-> img_flattened, num_saved |-> num_saved,
    dim |-> dim, clicks |-> clicks, saved |-> saved, curr |-> curr,
    cv_img |-> cv_img, disk |-> disk, pops |-> pops, ended |-> FALSE,
    exc |-> NoExc, warp |-> NoWarp, wrote |-> NoPath ]

NumPops(o) == o.pops.plain + o.pops.skip

(* ------------------------------ methods ------------------------------- *)
\* ImageProcessor.reload / Image_GUI.reload: show the source image again
base_reload(o) == [o EXCEPT !.cv_img = Original]

\* reload that forgets to empty the click list
reload_keeps_clicks(o) ==
  [base_reload(o) EXCEPT !.img_flattened = FALSE]

reload(o) ==
  [base_reload(o) EXCEPT !.img_flattened = FALSE, !.clicks = <<>>]

\* load the next image, or leave the main loop when none is left
load_next_img_or_end(o) ==
  IF o.curr >= Len(Paths) THEN [o EXCEPT !.ended = TRUE]
  ELSE reload([o EXCEPT !.curr = @ + 1])

\* next_file that forgets to reset the save counter
next_file_keeps_counter(o) ==
  load_next_img_or_end([o EXCEPT !.img_flattened = FALSE])

next_file(o) ==
  load_next_img_or_end([o EXCEPT !.img_flattened = FALSE, !.num_saved = 0])

\* the output path  <save_to>/<stem><extra>.<ext>
OutPath(o, extra) == [stem |-> Paths[o.curr].stem, extra |-> extra]

save_img_to_folder_with_extra(o, extra) ==
  [o EXCEPT !.disk = (OutPath(o, extra) :> o.cv_img) @@ @,
            !.wrote = OutPath(o, extra)]

\* save that does not reload afterwards
save_no_reload(o) ==
  IF ~o.img_flattened THEN o
  ELSE IF o.num_saved > 0 /\ o.impl = "gui"
    THEN [o EXCEPT !.exc = "AttributeError"]
  ELSE
    LET extra == IF o.num_saved > 0 THEN <<"_flat", o.num_saved>>
                 ELSE <<"_flat">>
        w == save_img_to_folder_with_extra(o, extra)
    IN [w EXCEPT !.saved = (w.wrote :> w.dim) @@ @, !.num_saved = @ + 1]

save(o) ==
  IF ~o.img_flattened THEN o
  ELSE IF o.num_saved > 0 /\ o.impl = "gui"
    THEN [o EXCEPT !.exc = "AttributeError"]   \* self._num_saved
  ELSE
    LET extra == IF o.num_saved > 0 THEN <<"_flat", o.num_saved>>
                 ELSE <<"_flat">>
        w == save_img_to_folder_with_extra(o, extra)
    IN reload([w EXCEPT !.saved = (w.wrote :> w.dim) @@ @,
                        !.num_saved = @ + 1])

\* s reversed
Reversed(s) == [i \in 1..Len(s) |-> s[Len(s) + 1 - i]]

\* _flatten_img that hands the corners to the warp in another order
flatten_img_reordered(o) ==
  IF Len(o.clicks) # 4 THEN [o EXCEPT !.exc = "AssertionError"]
  ELSE IF o.dim = None THEN [o EXCEPT !.exc = "TypeError"]
  ELSE
    LET rect == [i \in 1..Len(o.clicks) |-> Reversed(o.clicks)[i].pt]
        flat == four_points_correct_aspect(o.cv_img, rect,
                                           o.dim[1], o.dim[2])
        c == [o EXCEPT !.warp = [rect |-> Reversed(o.clicks),
                                 short |-> o.dim[1], long |-> o.dim[2],
                                 src |-> o.curr, by |-> "",
                                 calls |-> o.warp.calls + 1]]
    IN IF ~flat.ok THEN [c EXCEPT !.exc = "WarpError"]
       ELSE [c EXCEPT !.cv_img = flat.img, !.clicks = <<>>]

flatten_img(o) ==
  IF Len(o.clicks) # 4 THEN [o EXCEPT !.exc = "AssertionError"]
  ELSE IF o.dim = None THEN [o EXCEPT !.exc = "TypeError"]
  ELSE
    LET rect == [i \in 1..Len(o.clicks) |-> o.clicks[i].pt]
        flat == four_points_correct_aspect(o.cv_img, rect,
                                           o.dim[1], o.dim[2])
        c == [o EXCEPT !.warp = [rect |-> o.clicks, short |-> o.dim[1],
                                 long |-> o.dim[2], src |-> o.curr,
                                 by |-> "", calls |-> o.warp.calls + 1]]
    IN IF ~flat.ok THEN [c EXCEPT !.exc = "WarpError"]
       ELSE [c EXCEPT !.cv_img = flat.img, !.clicks = <<>>]

\* a pop-up that always gets its 'Use Last' button
request_dims_always_skip(o) == [o EXCEPT !.pops.skip = @ + 1]

\* the pop-up is created; 'Use Last' is packed only when dim is set
request_dims(o) ==
  IF o.dim # None THEN [o EXCEPT !.pops.skip = @ + 1]
  ELSE [o EXCEPT !.pops.plain = @ + 1]

\* left_mouse_down without the early return on a flattened image
left_mouse_down_unguarded(o, p) ==
  LET a == [o EXCEPT !.clicks = Append(@, [pt |-> p, src |-> o.curr])]
  IN IF Len(a.clicks) >= 4
       THEN request_dims([a EXCEPT !.img_flattened = TRUE])
       ELSE a

\* left_mouse_down that asks for the dimensions one click late
left_mouse_down_late(o, p) ==
  IF o.img_flattened THEN o
  ELSE
    LET a == [o EXCEPT !.clicks = Append(@, [pt |-> p, src |-> o.curr])]
    IN IF Len(a.clicks) > 4
         THEN request_dims([a EXCEPT !.img_flattened = TRUE])
         ELSE a

left_mouse_down(o, p) ==
  IF o.img_flattened THEN o
  ELSE
    LET a == [o EXCEPT !.clicks = Append(@, [pt |-> p, src |-> o.curr])]
    IN IF Len(a.clicks) >= 4
         THEN request_dims([a EXCEPT !.img_flattened = TRUE])
         ELSE a

\* pop.destroy() of a pop-up of kind k ("plain" or "skip")
destroy(o, k) ==
  IF k = "skip" THEN [o EXCEPT !.pops.skip = @ - 1]
  ELSE [o EXCEPT !.pops.plain = @ - 1]

skip(o) == flatten_img(destroy(o, "skip"))

done(o, k, short_str, long_str) ==
  IF ~float(short_str).ok THEN o
  ELSE IF ~float(long_str).ok THEN o
  ELSE flatten_img(destroy(
         [o EXCEPT !.dim = <<float(short_str).val, float(long_str).val>>], k))

(* ------------------------------ actions ------------------------------- *)
\* the working image has really been replaced by a flattened one
Flattened == img_flattened /\ cv_img.flat

\* the fourth corner is in and its dimension prompt has not flattened yet
AwaitingDimensions == img_flattened /\ ~cv_img.flat /\ Len(clicks) = 4

\* the callback op ran and left the object n
Apply(op, n) ==
  /\ img_flattened' = n.img_flattened
  /\ num_saved' = n.num_saved
  /\ dim' = n.dim
  /\ clicks' = n.clicks
  /\ saved' = n.saved
  /\ curr' = n.curr
  /\ cv_img' = n.cv_img
  /\ disk' = n.disk
  /\ pops' = n.pops
  /\ phase' = IF n.ended THEN "ended" ELSE phase
  /\ exc' = n.exc
  /\ warp' = IF n.warp = NoWarp THEN NoWarp ELSE [n.warp EXCEPT !.by = op]
  /\ wrote' = n.wrote
  /\ saves_in_row' = IF op # "save" THEN 0
                     ELSE IF saves_in_row > 0 THEN 2
                     ELSE IF Flattened THEN 1
                     ELSE 0
  /\ UNCHANGED << impl, result_json, main, viewer >>

\* the input of the run whose session the callbacks below drive
SessionInput == JList(<< JStr("x/a"), JStr("y/a") >>)

\* no Viewer runs in this process
NoViewer ==
  /\ files = <<>>
  /\ index = 0
  /\ evar = ""
  /\ tkimage = <<>>
  /\ nav = [op |-> "", from |-> 0]

\* the object as __init__ leaves it
Constructed ==
  /\ img_flattened = FALSE
  /\ num_saved = 0
  /\ dim = None
  /\ clicks = <<>>
  /\ saved = <<>>
  /\ curr = 1
  /\ cv_img = Original
  /\ disk = <<>>
  /\ pops = [plain |-> 0, skip |-> 0]
  /\ result_json = NoResult
  /\ exc = NoExc
  /\ warp = NoWarp
  /\ wrote = NoPath
  /\ last_done = None
  /\ saves_in_row = 0

Init ==
  /\ impl \in Impls
  /\ images_input = SessionInput
  /\ panels_in = parse_input(SessionInput).panels_in
  /\ main_exc = NoExc
  /\ main_pc = "mainloop"
  /\ NoViewer
  /\ img_flattened = FALSE
  /\ num_saved = 0
  /\ dim = None
  /\ clicks = <<>>
  /\ saved = <<>>
  /\ curr = 1
  /\ cv_img = Original
  /\ disk = <<>>
  /\ pops = [plain |-> 0, skip |-> 0]
  /\ reload_timer = (impl = "imageflattener")
  /\ phase = "running"
  /\ result_json = NoResult
  /\ exc = NoExc
  /\ warp = NoWarp
  /\ wrote = NoPath
  /\ last_done = None
  /\ saves_in_row = 0

\* a click on the canvas
Click ==
  /\ phase = "running"
  /\ img_flattened \/ Len(clicks) < 3 \/ NumPops(Obj) < MaxPops
  /\ \E p \in ClickTargets(clicks) : Apply("click", left_mouse_down(Obj, p))
  /\ UNCHANGED << reload_timer, last_done >>

\* the Reload button
Reload ==
  /\ phase = "running"
  /\ Apply("reload", reload(Obj))
  /\ UNCHANGED << reload_timer, last_done >>

\* the reload scheduled by __init__ of imageflattener.py fires
TimerReload ==
  /\ phase = "running"
  /\ reload_timer
  /\ reload_timer' = FALSE
  /\ Apply("timer", reload(Obj))
  /\ UNCHANGED last_done

\* the Save button
Save ==
  /\ phase = "running"
  /\ Cardinality(DOMAIN save(Obj).saved) <= MaxSaved
  /\ Apply("save", save(Obj))
  /\ UNCHANGED << reload_timer, last_done >>

\* the Next button
Next_file ==
  /\ phase = "running"
  /\ Apply("next", next_file(Obj))
  /\ UNCHANGED << reload_timer, last_done >>

\* the Done button of an open pop-up
Done ==
  /\ phase = "running"
  /\ \E k \in {"plain", "skip"} :
       /\ pops[k] > 0
       /\ \E e \in Entries :
            /\ Apply("done", done(Obj, k, e[1], e[2]))
            /\ last_done' = IF float(e[1]).ok /\ float(e[2]).ok
                               THEN << float(e[1]).val, float(e[2]).val >>
                               ELSE last_done
  /\ UNCHANGED reload_timer

\* the Use Last button of an open pop-up that has one
UseLast ==
  /\ phase = "running"
  /\ pops.skip > 0
  /\ Apply("skip", skip(Obj))
  /\ UNCHANGED << reload_timer, last_done >>

\* a json.dump(flattener.saved, outfile) that does not wait for the main
\* loop to end
WriteResultEarly ==
  /\ phase \in {"running", "ended"}
  /\ phase' = IF phase = "ended" THEN "written" ELSE phase
  /\ result_json' = [writes |-> result_json.writes + 1, content |-> saved]
  /\ saves_in_row' = 0
  /\ exc' = NoExc /\ warp' = NoWarp /\ wrote' = NoPath
  /\ UNCHANGED << impl, img_flattened, num_saved, dim, clicks, saved, curr,
                  cv_img, disk, pops, reload_timer, last_done, main,
                  viewer >>

\* __main__ after master.mainloop(): json.dump(flattener.saved, outfile)
WriteResult ==
  /\ phase = "ended"
  /\ phase' = "written"
  /\ result_json' = [writes |-> result_json.writes + 1, content |-> saved]
  /\ saves_in_row' = 0
  /\ exc' = NoExc /\ warp' = NoWarp /\ wrote' = NoPath
  /\ UNCHANGED << impl, img_flattened, num_saved, dim, clicks, saved, curr,
                  cv_img, disk, pops, reload_timer, last_done, main,
                  viewer >>

Next ==
  \/ Click
  \/ Reload
  \/ TimerReload
  \/ Save
  \/ Next_file
  \/ Done
  \/ UseLast
  \/ WriteResult

Spec == Init /\ [][Next]_vars

(* --------------------- __main__ of imageflattener.py ------------------ *)
session == << impl, img_flattened, num_saved, dim, clicks, saved, curr,
              cv_img, disk, pops, result_json, exc, warp, wrote, last_done,
              saves_in_row >>

\* json.load has returned; no session object exists yet
MainInit ==
  /\ images_input \in ImagesInputs
  /\ panels_in = <<>>
  /\ main_exc = NoExc
  /\ main_pc = "parse"
  /\ impl = "imageflattener"
  /\ phase = "none"
  /\ reload_timer = FALSE
  /\ Constructed
  /\ NoViewer

\* panels_in = _parse_input(images_input)
ParseInput ==
  /\ main_pc = "parse"
  /\ LET r == parse_input(images_input)
     IN /\ main_exc' = r.exc
        /\ panels_in' = r.panels_in
        /\ main_pc' = IF r.exc = NoExc THEN "construct" ELSE "exit"
  /\ UNCHANGED << images_input, session, phase, reload_timer, viewer >>

\* flattener = ImageFlattener(master, panels_in, arg.output)
Construct ==
  /\ main_pc = "construct"
  /\ main_pc' = "mainloop"
  /\ phase' = "running"
  /\ reload_timer' = TRUE
  /\ UNCHANGED << images_input, panels_in, main_exc, session, viewer >>

MainNext ==
  \/ ParseInput
  \/ Construct

MainSpec == MainInit /\ [][MainNext]_<< vars, main, viewer >>

(* ------------------------ task1/common/gui.py Viewer ------------------ *)
\* file names, as their path components; two share a basename
FileNames == { <<"x", "a">>, <<"y", "a">>, <<"x", "b">> }

\* the non-empty file lists a Viewer is made with
FileLists == SeqUpTo(FileNames, MaxFiles) \ { <<>> }

\* what the user can type into the search bar
TypedNames == { "a", "b", "c" }

\* os.path.basename
basename(file_name) == file_name[Len(file_name)]

\* the image read from a file: which file it is
get_image(filename) == filename

\* {basename(file_name): i for (i, file_name) in enumerate(file_list)}, the
\* first k files done: a later file replaces an earlier one of its basename
RECURSIVE files_reverse_upto(_, _)
files_reverse_upto(file_list, k) ==
  IF k = 0 THEN <<>>
  ELSE (basename(file_list[k]) :> (k - 1)) @@ files_reverse_upto(file_list, k - 1)

\* a files_reverse in which the first file of a basename stays
RECURSIVE files_reverse_first(_)
files_reverse_first(file_list) ==
  IF file_list = <<>> THEN <<>>
  ELSE LET n == Len(file_list)
       IN files_reverse_first(SubSeq(file_list, 1, n - 1))
            @@ (basename(file_list[n]) :> (n - 1))

files_reverse(file_list) == files_reverse_upto(file_list, Len(file_list))

\* the Viewer a callback starts from
View == [files |-> files, index |-> index, evar |-> evar, tkimage |-> tkimage]

\* next_frame without the modulo: past the ends the index is stored and
\* the look-up of the file fails
next_frame_no_wrap(v, new_index) ==
  IF new_index \notin 0..(Len(v.files) - 1) THEN [v EXCEPT !.index = new_index]
  ELSE
    LET filename == v.files[new_index + 1]
    IN [v EXCEPT !.index = new_index,
                 !.evar = basename(filename),
                 !.tkimage = get_image(filename)]

next_frame(v, new_index) ==
  LET i == new_index % Len(v.files)
      filename == v.files[i + 1]
  IN [v EXCEPT !.index = i,
               !.evar = basename(filename),
               !.tkimage = get_image(filename)]

next_frame_by_name(v) ==
  LET name == v.evar
  IN IF name \in DOMAIN files_reverse(v.files)
       THEN next_frame(v, files_reverse(v.files)[name])
       ELSE v

\* no flattening session and no flattener script run in this process
NoFlattener ==
  /\ impl = "imageflattener"
  /\ phase = "none"
  /\ reload_timer = FALSE
  /\ Constructed
  /\ images_input = JList(<<>>)
  /\ panels_in = <<>>
  /\ main_exc = NoExc
  /\ main_pc = "exit"

\* Viewer.__init__ over a non-empty file list
ViewerInit ==
  /\ files \in FileLists
  /\ index = 0
  /\ evar = basename(files[1])
  /\ tkimage = get_image(files[1])
  /\ nav = [op |-> "", from |-> 0]
  /\ NoFlattener

\* the callback op ran and left the Viewer n
ViewerApply(op, n) ==
  /\ files' = n.files
  /\ index' = n.index
  /\ evar' = n.evar
  /\ tkimage' = n.tkimage
  /\ nav' = [op |-> op, from |-> index]
  /\ UNCHANGED << vars, main >>

\* the "next" button
NextButton == ViewerApply("next", next_frame(View, index + 1))

\* the "back" button
BackButton == ViewerApply("back", next_frame(View, index - 1))

\* the user edits the text of the search bar
TypeName ==
  \E name \in TypedNames : ViewerApply("type", [View EXCEPT !.evar = name])

\* <Return> in the search bar
Return == ViewerApply("return", next_frame_by_name(View))

ViewerNext ==
  \/ NextButton
  \/ BackButton
  \/ TypeName
  \/ Return

ViewerSpec == ViewerInit /\ [][ViewerNext]_<< vars, main, viewer >>

(* ------------------------------- claims ------------------------------- *)
\* the suffix the counter asks for
ExpectedExtra == IF num_saved = 0 THEN <<"_flat">> ELSE <<"_flat", num_saved>>

\* C1: while the working image is not a flattened image, a Save callback
\* writes no file, adds no manifest entry, keeps the save counter and does
\* not reload.
C1_SaveOutsideFlattenedIsNoop ==
  [][ (Save /\ ~cv_img.flat)
        => /\ wrote' = NoPath
           /\ UNCHANGED << disk, saved, num_saved, clicks, img_flattened,
                           cv_img >> ]_vars

\* C2: a click on an unflattened image is recorded; the click that makes
\* four raises the flag and opens exactly one pop-up, earlier clicks open
\* none; a click while the flag is up changes nothing of the session.
C2_FourthClickPrompts ==
  [][ Click =>
        IF img_flattened THEN UNCHANGED prog
        ELSE /\ Len(clicks') = Len(clicks) + 1
             /\ SubSeq(clicks', 1, Len(clicks)) = clicks
             /\ IF Len(clicks) = 3
                  THEN /\ img_flattened'
                       /\ ~cv_img'.flat
                       /\ pops'.plain + pops'.skip = NumPops(Obj) + 1
                  ELSE /\ ~img_flattened'
                       /\ pops' = pops ]_vars

\* C2 witness: the fourth click has opened the prompt, which is unresolved
C2_Witness == AwaitingDimensions /\ NumPops(Obj) = 1 /\ exc = NoExc

\* C3: the click list never holds more than 4 points.
C3_AtMostFourClicks == Len(clicks) <= 4

\* C3 witness: four corners are recorded
C3_Witness == Len(clicks) = 4 /\ img_flattened

C5_SaveSuffixes ==
  [][ (Save /\ img_flattened)
        => wrote' = [stem |-> Paths[curr].stem, extra |-> ExpectedExtra] ]_vars

\* C6 as stated: the second of two Save callbacks in a row, the first made
\* in Flattened, writes a second path.
C6_TwoSavesTwoPaths == saves_in_row = 2 => wrote # NoPath

\* C6 amended: of two Save callbacks in a row, the first made in Flattened,
\* only the first can write; when it writes, its path has a manifest entry
\* and the image is reloaded; the second writes nothing and adds no entry.
C6_SecondSaveIsNoop ==
  /\ []((saves_in_row = 1 /\ wrote # NoPath)
          => /\ wrote \in DOMAIN saved
             /\ wrote \in DOMAIN disk
             /\ ~img_flattened
             /\ ~cv_img.flat
             /\ clicks = <<>>)
  /\ [][ (Save /\ saves_in_row = 1)
           => /\ wrote' = NoPath
              /\ UNCHANGED << saved, disk, num_saved >> ]_vars

\* C6 witness: two Save callbacks in a row, the first one in Flattened and
\* writing, the second one right after it
C6_Witness ==
  saves_in_row = 2 /\ Cardinality(DOMAIN saved) = 1 /\ num_saved = 1

\* C7: a pop-up has a 'Use Last' button only when dimensions are stored;
\* Use Last never meets absent dimensions, and the warp it calls gets the
\* pair of the most recent accepted Done.
C7_UseLastUsesLastDims ==
  /\ [](pops.skip > 0 => dim # None)
  /\ [][ UseLast
           => /\ exc' # "TypeError"
              /\ last_done # None
              /\ Len(clicks) = 4
                   => /\ warp'.by = "skip"
                      /\ << warp'.short, warp'.long >> = last_done ]_vars

\* C7 witness: Use Last has flattened an image
C7_Witness == warp.by = "skip" /\ cv_img.flat /\ cv_img.dims = last_done

\* C8: stored dimensions are absent or strictly positive.
C8_DimsPositive == dim = None \/ (dim[1] > 0 /\ dim[2] > 0)

\* C9: reload and next-file keep the stored dimensions and the manifest;
\* next-file sets the save counter to 0, reload keeps it.
C9_ReloadNextFrame ==
  /\ [][ (Reload \/ TimerReload \/ Next_file)
           => dim' = dim /\ saved' = saved ]_vars
  /\ [][ Next_file => num_saved' = 0 ]_vars
  /\ [][ (Reload \/ TimerReload) => num_saved' = num_saved ]_vars

\* C9 witness: next-file has acted after a save with dimensions stored
C9_Witness ==
  curr = 2 /\ num_saved = 0 /\ saved # <<>> /\ dim # None /\ clicks = <<>>

\* C10: a save adds a key that was not there, and no manifest entry is
\* ever removed or changed.
C10_ManifestOnlyGrows ==
  [][ /\ \A p \in DOMAIN saved : p \in DOMAIN saved' /\ saved'[p] = saved[p]
      /\ wrote' # NoPath => wrote' \notin DOMAIN saved ]_vars

\* C11: every manifest entry belongs to a written flattened image and holds
\* the pair that was passed to the warp that produced that image; it is
\* never None and never a pair submitted after the flattening.
C11_ManifestRecordsWarpDims ==
  \A p \in DOMAIN saved :
    /\ p \in DOMAIN disk
    /\ saved[p] # None
    /\ disk[p].flat
    /\ saved[p] = disk[p].dims

\* a point as the input format describes it: a list of exactly two ints
IsPair(point) ==
  /\ point.t = "list"
  /\ Len(point.items) = 2
  /\ point.items[1].t = "int"
  /\ point.items[2].t = "int"

\* a value as the input format describes it: a list, of any length, of pairs
WellFormedHints(value) ==
  /\ value.t = "list"
  /\ \A i \in 1..Len(value.items) : IsPair(value.items[i])

\* C12: once _parse_input has run: on an object it succeeded exactly when
\* every value is a list of pairs of ints (of any length), and then panels_in
\* holds for each path its points in order; on an array of paths it gives
\* each path an empty hint list; on anything else, and on every rejected
\* object, it raised the format error, and no session was constructed.
C12_ParseAcceptsWellFormed ==
  main_pc # "parse" =>
    LET e == images_input.items
    IN /\ images_input.t = "dict" =>
            /\ (main_exc = NoExc) <=>
                  \A i \in 1..Len(e) : WellFormedHints(e[i].items[1])
            /\ main_exc = NoExc =>
                  panels_in = [i \in 1..Len(e) |->
                                 [key |-> e[i].s, hints |-> e[i].items[1].items]]
       /\ images_input.t = "list" =>
            /\ main_exc = NoExc
            /\ panels_in = [i \in 1..Len(e) |-> [key |-> e[i].s, hints |-> <<>>]]
       /\ images_input.t \notin {"dict", "list"} => main_exc = "JsonFormatError"
       /\ main_exc \in {NoExc, "JsonFormatError"}
       /\ main_exc # NoExc => main_pc = "exit"

\* C13: while a dimension pop-up is open, a click, Reload, the timer reload,
\* Save and Next leave the clicks, the flag, the current image, the save
\* counter and the manifest as they are.
C13_PromptSuspendsSession ==
  [][ (NumPops(Obj) > 0 /\ (Click \/ Reload \/ TimerReload \/ Save \/ Next_file))
        => UNCHANGED << clicks, img_flattened, curr, num_saved, saved >> ]_vars

\* the last callback called the warp on degenerate corners and it failed
WarpFailedOnCorners ==
  /\ exc = "WarpError"
  /\ Degenerate([i \in 1..Len(warp.rect) |-> warp.rect[i].pt])

\* C14: after a warp that failed on degenerate corners the click list is
\* empty, the flag is down and the working image is the source image; the
\* next click is recorded and a Save writes nothing.
C14_WarpFailureRollsBack ==
  /\ [](WarpFailedOnCorners
          => clicks = <<>> /\ ~img_flattened /\ cv_img = Original)
  /\ [][ (WarpFailedOnCorners /\ Click) => Len(clicks') = 1 ]_vars
  /\ [][ (WarpFailedOnCorners /\ Save)
           => wrote' = NoPath /\ UNCHANGED << saved, disk, num_saved >> ]_vars

\* a Done with parsable entries or a Use Last, pressed in AwaitingDimensions
\* (the step closes its pop-up)
Resolution == (Done \/ UseLast) /\ AwaitingDimensions /\ pops' # pops

C16_ManifestFlushedOnceAtEnd ==
  /\ [](phase # "written" => result_json = NoResult)
  /\ [](phase = "written"
          => result_json = [writes |-> 1, content |-> saved])
  /\ [][ result_json' # result_json => phase = "ended" /\ WriteResult ]_vars
  /\ [][ phase # "written" ]_vars

\* C16 witness: the run has ended and result.json holds a manifest entry
C16_Witness ==
  /\ phase = "written"
  /\ result_json.writes = 1
  /\ result_json.content # <<>>
  /\ DOMAIN result_json.content = DOMAIN saved

\* C17: no callback enters _flatten_img with a click list that does not
\* hold exactly 4 points (the assert fails) or with no dimensions stored
\* (self.dim[0] fails).
C17_FlattenPreconditionHolds == exc # "AssertionError" /\ exc # "TypeError"

\* C18: in every state, with the flag down the click list holds
\* 0 to 3 points; with the flag up it holds exactly 4 points or none.
C18_FlagAndClicksConsistent ==
  /\ ~img_flattened => Len(clicks) \in 0..3
  /\ img_flattened => Len(clicks) \in {0, 4}

\* the part of C18 that does hold: the flag and the click list are
\* consistent in every state in which the main loop is running
ConsistentWhileRunning == phase = "running" => C18_FlagAndClicksConsistent

\* the text of the search bar is the basename of a listed file
Listed(name) == \E i \in 1..Len(files) : basename(files[i]) = name

C20_GoToByName ==
  [][ Return =>
        IF Listed(evar)
          THEN /\ basename(files[index' + 1]) = evar
               /\ \A i \in 1..Len(files) :
                    basename(files[i]) = evar => i - 1 <= index'
               /\ tkimage' = files[index' + 1]
          ELSE index' = index /\ tkimage' = tkimage ]_viewer

\* C20 witness: go-to-by-name has moved to the later of two files that
\* share the basename
C20_Witness ==
  /\ nav.op = "return"
  /\ nav.from # index
  /\ basename(files[index + 1]) = evar
  /\ \E i \in 1..index : basename(files[i]) = evar

====
